---- MODULE Spec2Model ----
(***************************************************************************)
(* fermipy: the flux-sensitivity driver, scripts/flux_sensitivity.py.      *)
(*                                                                         *)
(* run_flux_sensitivity is modelled as a sequential process: one action    *)
(* per block of the function, in program order, with pc naming the block   *)
(* that runs next.  A raised exception ends the run in pc = "error".       *)
(*                                                                         *)
(* Representation.                                                         *)
(*  - Python's None is the empty tuple; a present value v is <<v>>.        *)
(*  - Floating-point numbers are exact rationals <<n, d>>, d > 0, in       *)
(*    lowest terms; NaN (numpy's non-finite marker) is <<0, 0>>.           *)
(*  - An energy is carried by its log10 in units of half a decade          *)
(*    (10**1.5 MeV is 3, 10**6 MeV is 12): np.log10 and 10** are strictly  *)
(*    increasing inverse bijections on the positive energies used here.   *)
(*  - A sky direction is the index of the HEALPix cell that holds it.      *)
(***************************************************************************)
EXTENDS Integers, Sequences, FiniteSets, TLC

\* ------------------------------------------------------------ bounds
MaxNbin == 2
MaxYears == 2
MaxLen == 2
MaxValue == 3
MaxGamma == 2

\* ------------------------------------------------- program constants
SecPerYear == 31536000
DefaultTsThresh == 25
DefaultMinCounts == 3
ScanMinCounts == 3
ScanNum == 17
ScanFirst == 1
ScanLast == 5
ScanScale == 7
DiffScale == 6
DefaultIndex == 2

None == <<>>
Some(v) == <<v>>

\* ------------------------------------------------------------ numbers
Abs(n) == IF n < 0 THEN -n ELSE n

RECURSIVE GCD(_, _)
GCD(a, b) == IF b = 0 THEN a ELSE GCD(b, a % b)

NaN == <<0, 0>>
IsNaN(r) == r[2] = 0

Rat(n, d) ==
  IF d = 0 THEN NaN
  ELSE LET g == GCD(Abs(n), Abs(d))
           s == IF d < 0 THEN -1 ELSE 1
       IN  <<(s * n) \div g, (s * d) \div g>>

RInt(n) == <<n, 1>>
\* products and sums cancel common factors first, so that intermediate
\* values stay small
RMul(a, b) ==
  IF IsNaN(a) \/ IsNaN(b) THEN NaN
  ELSE LET g1 == GCD(Abs(a[1]), b[2])
           g2 == GCD(Abs(b[1]), a[2])
       IN  Rat((a[1] \div g1) * (b[1] \div g2), (a[2] \div g2) * (b[2] \div g1))
RAdd(a, b) ==
  IF IsNaN(a) \/ IsNaN(b) THEN NaN
  ELSE LET g == GCD(a[2], b[2])
       IN  Rat(a[1] * (b[2] \div g) + b[1] * (a[2] \div g), (a[2] \div g) * b[2])
RDiv(a, b) ==
  IF IsNaN(a) \/ IsNaN(b) \/ b[1] = 0 THEN NaN
  ELSE RMul(a, IF b[1] < 0 THEN <<-b[2], -b[1]>> ELSE <<b[2], b[1]>>)
\* comparisons of finite numbers; any comparison with NaN is false
RLt(a, b) ==
  /\ ~IsNaN(a) /\ ~IsNaN(b)
  /\ LET g == GCD(a[2], b[2]) IN a[1] * (b[2] \div g) < b[1] * (a[2] \div g)
RLe(a, b) ==
  /\ ~IsNaN(a) /\ ~IsNaN(b)
  /\ LET g == GCD(a[2], b[2]) IN a[1] * (b[2] \div g) <= b[1] * (a[2] \div g)

\* num samples spaced by (b - a) / num: the last one falls short of b
LinspaceNoEndpoint(a, b, num) ==
  [i \in 1..num |->
      RAdd(a, RMul(Rat(i - 1, num), RAdd(b, RMul(RInt(-1), a))))]

\* np.linspace(a, b, num): num evenly spaced samples, both ends included
Linspace(a, b, num) ==
  IF num = 1 THEN <<a>>
  ELSE [i \in 1..num |->
          RAdd(a, RMul(Rat(i - 1, num - 1), RAdd(b, RMul(RInt(-1), a))))]

\* utils.edge_to_center: 0.5 * (edges[1:] + edges[:-1])
EdgeToCenter(edges) ==
  IF Len(edges) < 2 THEN <<>>
  ELSE [i \in 1..(Len(edges) - 1) |-> RMul(Rat(1, 2), RAdd(edges[i], edges[i + 1]))]

\* The natural logarithm of an energy is its carried log10 value times
\* ln(10)/2, here the rational 23/20; np.exp undoes np.log.
LnPerUnit == Rat(23, 20)
NpLog(energies) == [i \in 1..Len(energies) |-> RMul(energies[i], LnPerUnit)]
NpExp(logs) == [i \in 1..Len(logs) |-> RDiv(logs[i], LnPerUnit)]

RMax(a, b) == IF IsNaN(a) \/ IsNaN(b) THEN NaN ELSE IF RLe(a, b) THEN b ELSE a

\* ------------------------------------------------------------ the sky
\* HPX(nside, ...).npix: a HEALPix tessellation has 12 * nside^2 cells
Npix(n) == 12 * n * n
NsideValues == {1}
Dirs == 1..Npix(1)
\* directions the instrument never observed, and directions where the
\* galactic template is empty in the first energy bin
UnobservedDirs == {2}
GalEmptyDirs == {3}

\* ------------------------------------------------------ input files
\* The livetime cube on disk: livetime (s) per direction, recorded over a
\* span of two thirds of a year.
CubeOnDisk ==
  [counts |-> [d \in Dirs |-> IF d \in UnobservedDirs THEN RInt(0) ELSE RInt(10512000)],
   tstart |-> 10512000,
   tstop  |-> 31536000]

\* The galactic diffuse template: intensity (counts per unit exposure) by
\* direction and energy bin.
GalOnDisk(d, i) == IF d \in GalEmptyDirs /\ i = 1 THEN RInt(0) ELSE Rat(4, SecPerYear)

\* The isotropic spectrum tables: the default table of the event class
\* (isodiff is None), and a caller-supplied table that is zero everywhere.
IsoOnDisk(path, i) == IF path = None THEN Rat(1, SecPerYear) ELSE RInt(0)

\* ------------------------------------------------------------ inputs
\* run_flux_sensitivity(**kwargs); galdiff_fit and isodiff_fit are left at
\* their default None, index at its default 2.0.
Kwargs ==
  [ltcube      : {None, Some("ltcube.fits")},
   obs_time_yr : {None} \cup {Some(y) : y \in 1..MaxYears},
   nside       : {None} \cup {Some(n) : n \in NsideValues},
   ts_thresh   : {0, DefaultTsThresh},
   min_counts  : {0, DefaultMinCounts, DefaultMinCounts + 2},
   nbin        : 0..MaxNbin,
   emin        : {1, 3},
   emax        : {1, 3, 12},
   isodiff     : {None, Some("iso_zero.txt")},
   c           : {1} \cup UnobservedDirs]

VARIABLES
  kwargs,          \* the arguments of the run
  disk,            \* the livetime cube file
  run,             \* 1 for the first invocation, 2 for the repeated one
  pc,              \* the block of run_flux_sensitivity that runs next
  err,             \* the exception that ended the run, or None
  fn,              \* the spectral model
  ebins, ectr,     \* energy bin edges and centers
  ltc,             \* the livetime cube handed to the calculator
  gdiff, iso,      \* the loaded background templates
  scalc,           \* the SensitivityCalc
  map_skydir,      \* the pixel-center directions
  map_diff_flux, map_diff_npred, map_int_flux, map_int_npred,
  tab_diff, tab_int, tab_int_ebin,
  scan_i,          \* position of the loop over the index grid
  calls,           \* the solver invocations of this run, in order
  written,         \* the file written by hdulist.writeto, or None
  prev             \* what the previous invocation left: its maps and file

locals == <<fn, ebins, ectr, ltc, gdiff, iso, scalc, map_skydir,
            map_diff_flux, map_diff_npred, map_int_flux, map_int_npred,
            tab_diff, tab_int, tab_int_ebin, scan_i, calls>>
fvars == <<kwargs, disk, run, pc, err, locals, written, prev>>

\* plotting.PowerNorm: one call of a norm on one value
VARIABLES
  self,            \* the PowerNorm: gamma, vmin, vmax, clip
  value,           \* the argument: its numbers, and whether it is a scalar
  clip_arg,        \* the clip argument of the call
  npc,             \* the block of PowerNorm.__call__ that runs next
  nerr,            \* the exception that ended the call, or None
  clip,            \* the local clip
  result,          \* the working array
  val,             \* the clipped array
  ret              \* the returned value

nvars == <<self, value, clip_arg, npc, nerr, clip, result, val, ret>>
vars == <<fvars, nvars>>

\* no norm is in use
NormIdle ==
  /\ self = None /\ value = None /\ clip_arg = None
  /\ npc = "idle" /\ nerr = None
  /\ clip = None /\ result = None /\ val = None /\ ret = None

\* spectrum.PowerLaw([1E-13, -index], scale=...)
PowerLaw(index, scale) == [index |-> index, scale |-> scale]

Fresh ==
  /\ pc = "start" /\ err = None
  /\ fn = None /\ ebins = None /\ ectr = None /\ ltc = None
  /\ gdiff = None /\ iso = None /\ scalc = None /\ map_skydir = None
  /\ map_diff_flux = None /\ map_diff_npred = None
  /\ map_int_flux = None /\ map_int_npred = None
  /\ tab_diff = None /\ tab_int = None /\ tab_int_ebin = None
  /\ scan_i = 0 /\ calls = <<>>

Init ==
  /\ kwargs \in Kwargs
  /\ disk = CubeOnDisk
  /\ run = 1
  /\ written = None
  /\ prev = None
  /\ Fresh
  /\ NormIdle

Raise(msg) == pc' = "error" /\ err' = Some(msg)

\* ---------------------------------------------------- lines 83-110
Binning ==
  /\ pc = "start"
  /\ UNCHANGED nvars
  /\ fn' = Some(PowerLaw(RInt(DefaultIndex), DiffScale))
  /\ LET log_ebins == Linspace(RInt(kwargs.emin), RInt(kwargs.emax), kwargs.nbin + 1)
     IN  /\ ebins' = Some(log_ebins)
         /\ ectr' = Some(NpExp(EdgeToCenter(NpLog(log_ebins))))
  /\ pc' = "exposure"
  /\ UNCHANGED <<kwargs, disk, run, err, ltc, gdiff, iso, scalc, map_skydir,
                 map_diff_flux, map_diff_npred, map_int_flux, map_int_npred,
                 tab_diff, tab_int, tab_int_ebin, scan_i, calls, written, prev>>

\* ---------------------------------------------------- lines 112-119
\* LTCube.create_from_obs_time(t): no pointing history, livetime t everywhere
CreateFromObsTime(t) ==
  [counts |-> [d \in Dirs |-> RInt(t)], tstart |-> 0, tstop |-> t]

\* LTCube.create(path): a new object holding what the file holds
LTCubeCreate(store) == store

\* obs_time_yr * 365 * 24 * 3600. / (ltc.tstop - ltc.tstart)
ScaleFactorInverted(obs_time_yr, cube) ==
  RDiv(RInt(cube.tstop - cube.tstart), RInt(obs_time_yr * SecPerYear))
ScaleFactor(obs_time_yr, cube) ==
  RDiv(RInt(obs_time_yr * SecPerYear), RInt(cube.tstop - cube.tstart))

\* ltc._counts *= factor
Rescale(cube, f) == [cube EXCEPT !.counts = [d \in Dirs |-> RMul(cube.counts[d], f)]]

\* the file after the in-memory cube was rescaled: the multiplication acts on
\* the loaded object and the file is not written
DiskAfterRescaleShared(store, cube) == cube
DiskAfterRescale(store, cube) == store

\* obs_time_yr = kwargs.get('obs_time_yr', None)
ObsTimeYrDefaulted(kw) == IF kw.obs_time_yr = None THEN Some(1) ELSE kw.obs_time_yr
ObsTimeYr(kw) == kw.obs_time_yr

\* ltcube_filepath = kwargs.get('ltcube', None)
LtcubeFilepath(kw) == kw.ltcube

\* lines 120-122
LoadAndRescale(loaded, obs_time_yr) ==
  IF obs_time_yr # None
  THEN Rescale(loaded, ScaleFactor(obs_time_yr[1], loaded))
  ELSE loaded

LoadCube(cube, obs_time_yr) ==
  /\ ltc' = Some(cube)
  /\ disk' = IF obs_time_yr # None THEN DiskAfterRescale(disk, cube) ELSE disk

LoadExposure ==
  /\ pc = "exposure"
  /\ UNCHANGED nvars
  /\ IF LtcubeFilepath(kwargs) = None
     THEN IF ObsTimeYr(kwargs) = None
          THEN /\ Raise("No observation time defined.")
               /\ UNCHANGED <<ltc, disk>>
          ELSE /\ ltc' = Some(CreateFromObsTime(ObsTimeYr(kwargs)[1] * SecPerYear))
               /\ pc' = "background"
               /\ UNCHANGED <<err, disk>>
     ELSE /\ ltc' = Some(LTCubeCreate(disk))
          /\ pc' = "rescale"
          /\ UNCHANGED <<err, disk>>
  /\ UNCHANGED <<kwargs, run, fn, ebins, ectr, gdiff, iso, scalc, map_skydir,
                 map_diff_flux, map_diff_npred, map_int_flux, map_int_npred,
                 tab_diff, tab_int, tab_int_ebin, scan_i, calls, written, prev>>

\* ---------------------------------------------------- lines 120-122
\* the cube object created at line 119 is itself multiplied, in place
RescaleExposure ==
  /\ pc = "rescale"
  /\ UNCHANGED nvars
  /\ LoadCube(LoadAndRescale(ltc[1], ObsTimeYr(kwargs)), ObsTimeYr(kwargs))
  /\ pc' = "background"
  /\ UNCHANGED <<kwargs, run, err, fn, ebins, ectr, gdiff, iso, scalc, map_skydir,
                 map_diff_flux, map_diff_npred, map_int_flux, map_int_npred,
                 tab_diff, tab_int, tab_int_ebin, scan_i, calls, written, prev>>

\* ---------------------------------------------------- lines 124-141
LoadBackground ==
  /\ pc = "background"
  /\ UNCHANGED nvars
  /\ gdiff' = Some("galdiff")
  /\ iso' = Some(kwargs.isodiff)
  /\ pc' = "construct"
  /\ UNCHANGED <<kwargs, disk, run, err, fn, ebins, ectr, ltc, scalc, map_skydir,
                 map_diff_flux, map_diff_npred, map_int_flux, map_int_npred,
                 tab_diff, tab_int, tab_int_ebin, scan_i, calls, written, prev>>

\* ---------------------------------------------------- lines 143-145
\* at least two edges, strictly increasing
ValidEdges(e) ==
  /\ Len(e) >= 2
  /\ \A i \in 1..(Len(e) - 1) : RLt(e[i], e[i + 1])

\* SensitivityCalc(gdiff, iso, ltc, ebins, event_class, event_types, ...)
Construct ==
  /\ pc = "construct"
  /\ UNCHANGED nvars
  /\ IF ValidEdges(ebins[1])
     THEN /\ scalc' = Some([ebins |-> ebins[1], ectr |-> EdgeToCenter(ebins[1]),
                             ltc |-> ltc[1], iso |-> iso[1]])
          /\ pc' = "maps"
          /\ UNCHANGED err
     ELSE /\ Raise("invalid energy bins")
          /\ UNCHANGED scalc
  /\ UNCHANGED <<kwargs, disk, run, fn, ebins, ectr, ltc, gdiff, iso, map_skydir,
                 map_diff_flux, map_diff_npred, map_int_flux, map_int_npred,
                 tab_diff, tab_int, tab_int_ebin, scan_i, calls, written, prev>>

\* ------------------------------------------------- the threshold solver
\* An operator's argument is evaluated once, so each intermediate result is
\* handed on as an argument.

\* effective area at a bin-center energy: the response tables start at
\* 10 MeV and the instrument collects nothing below
Aeff(e) == IF RLt(e, RInt(2)) THEN RInt(0) ELSE RInt(1)

\* exposure(direction, energy bin) >= 0: livetime times effective area
Exposure(sc, d, i) == RMul(sc.ltc.counts[d], Aeff(sc.ectr[i]))

\* background_counts(direction, energy bin) >= 0: galactic plus isotropic
\* intensity, weighted by the exposure
BackgroundCounts(sc, d, i, expo) ==
  RMul(RAdd(GalOnDisk(d, i), IsoOnDisk(sc.iso, i)), expo)

\* the least whole number of signal counts s whose test statistic s^2 / bkg
\* reaches ts
RECURSIVE RootTS(_, _, _)
RootTS(s, bkg, ts) ==
  IF s * s * bkg[2] >= ts * bkg[1] THEN s ELSE RootTS(s + 1, bkg, ts)

\* (a) the normalization at which predicted counts equal min_counts
NormCounts(expo, mc) == RDiv(RInt(mc), expo)
\* (b) the normalization at which the test statistic equals ts_thresh
NormTS(bkg, expo, ts) == RDiv(RInt(RootTS(0, bkg, ts)), expo)

RMin(a, b) == IF IsNaN(a) \/ IsNaN(b) THEN NaN ELSE IF RLe(a, b) THEN a ELSE b

\* the binding threshold of one bin; predicted counts are norm * exposure
ThresholdNormMin(bkg, expo, ts, mc) ==
  IF ~RLt(RInt(0), expo) THEN NaN
  ELSE IF bkg = RInt(0) THEN NormCounts(expo, mc)
  ELSE RMin(NormCounts(expo, mc), NormTS(bkg, expo, ts))

ThresholdNorm(bkg, expo, ts, mc) ==
  IF ~RLt(RInt(0), expo) THEN NaN
  ELSE IF bkg = RInt(0) THEN NormCounts(expo, mc)
  ELSE RMax(NormCounts(expo, mc), NormTS(bkg, expo, ts))

Quantities == {"flux", "eflux", "dnde", "e2dnde", "npred"}

\* a result field of one bin from its normalization: the spectral model's
\* bin flux is the unit of flux, its scale energy converts to the others
BinQuantity(q, norm, expo, f) ==
  CASE q = "flux"   -> norm
    [] q = "npred"  -> RMul(norm, expo)
    [] q = "eflux"  -> RMul(norm, RInt(f.scale))
    [] q = "dnde"   -> RDiv(norm, RInt(f.scale))
    [] q = "e2dnde" -> RMul(norm, RInt(f.scale))

BinResult(norm, expo, f) == [q \in Quantities |-> BinQuantity(q, norm, expo, f)]

SolveBinAt(sc, d, i, f, ts, mc, expo) ==
  BinResult(ThresholdNorm(BackgroundCounts(sc, d, i, expo), expo, ts, mc), expo, f)

\* the threshold of one direction and one energy bin
SolveBin(sc, d, i, f, ts, mc) == SolveBinAt(sc, d, i, f, ts, mc, Exposure(sc, d, i))

Nbins(sc) == Len(sc.ebins) - 1

ByQuantity(bins) == [q \in Quantities |-> [i \in DOMAIN bins |-> bins[i][q]]]

\* differential mode at one direction: each bin solved on its own
DiffAt(sc, d, f, ts, mc) ==
  ByQuantity([i \in 1..Nbins(sc) |-> SolveBin(sc, d, i, f, ts, mc)])

RECURSIVE SumFinite(_, _)
SumFinite(seq, n) ==
  IF n = 0 THEN RInt(0)
  ELSE IF IsNaN(seq[n]) THEN SumFinite(seq, n - 1)
  ELSE RAdd(SumFinite(seq, n - 1), seq[n])

\* the integral of a per-bin breakdown: the sum over the bins that have a
\* threshold, undefined when none has
Integral(seq) ==
  IF \A i \in 1..Len(seq) : IsNaN(seq[i]) THEN NaN ELSE SumFinite(seq, Len(seq))

DiffRecord(sc, o) ==
  [e_ref |-> sc.ectr, flux |-> o["flux"], eflux |-> o["eflux"],
   dnde |-> o["dnde"], e2dnde |-> o["e2dnde"], npred |-> o["npred"]]

\* scalc.diff_flux_threshold(c, fn, ts_thresh, min_counts), c one direction:
\* arrays of shape (nbin,)
DiffFluxThreshold(sc, d, f, ts, mc) == DiffRecord(sc, DiffAt(sc, d, f, ts, mc))

DiffMapRecord(per) ==
  [flux  |-> [k \in DOMAIN per |-> per[k]["flux"]],
   npred |-> [k \in DOMAIN per |-> per[k]["npred"]]]

\* scalc.diff_flux_threshold(map_skydir, ...): arrays of shape (npix, nbin)
DiffFluxThresholdMap(sc, dirs, f, ts, mc) ==
  DiffMapRecord([k \in 1..Len(dirs) |-> DiffAt(sc, dirs[k], f, ts, mc)])

IntRecord(sc, o, n) ==
  [e_min |-> sc.ebins[1], e_max |-> sc.ebins[n],
   e_ref |-> RMul(Rat(1, 2), RAdd(sc.ebins[1], sc.ebins[n])),
   flux |-> Integral(o["flux"]), eflux |-> Integral(o["eflux"]),
   dnde |-> Integral(o["dnde"]), e2dnde |-> Integral(o["e2dnde"]),
   npred |-> Integral(o["npred"]),
   bins |-> [e_min |-> SubSeq(sc.ebins, 1, n - 1),
             e_max |-> SubSeq(sc.ebins, 2, n),
             e_ref |-> sc.ectr,
             flux |-> o["flux"], eflux |-> o["eflux"], dnde |-> o["dnde"],
             e2dnde |-> o["e2dnde"], npred |-> o["npred"]]]

\* scalc.int_flux_threshold(c, fn, ts_thresh, min_counts), c one direction:
\* scalars, and the per-bin breakdown under 'bins'
IntFluxThreshold(sc, d, f, ts, mc) ==
  IntRecord(sc, DiffAt(sc, d, f, ts, mc), Len(sc.ebins))

IntMapRecord(per) ==
  [flux  |-> [k \in DOMAIN per |-> Integral(per[k]["flux"])],
   npred |-> [k \in DOMAIN per |-> Integral(per[k]["npred"])]]

\* scalc.int_flux_threshold(map_skydir, ...): arrays of shape (npix,)
IntFluxThresholdMap(sc, dirs, f, ts, mc) ==
  IntMapRecord([k \in 1..Len(dirs) |-> DiffAt(sc, dirs[k], f, ts, mc)])

\* one entry of the log of solver invocations
Call(method, skydir, f, ts, mc) ==
  [method |-> method, skydir |-> skydir, fn |-> f, ts_thresh |-> ts, min_counts |-> mc]

\* ---------------------------------------------------- lines 147-171
\* if nside is not None:
MapRequestedAlways(n) == TRUE
MapRequested(n) == n # None

\* np.zeros(shape)
Zeros1(n) == [p \in 1..n |-> RInt(0)]
Zeros2(m, n) == [i \in 1..m |-> [p \in 1..n |-> RInt(0)]]

\* a.T of a two-dimensional array of shape (m, n)
Transpose(a, m, n) == [j \in 1..n |-> [k \in 1..m |-> a[k][j]]]

\* data[...] = values on a two-dimensional array: every cell is overwritten
AssignAll2(data, values) ==
  [i \in DOMAIN data |-> [p \in DOMAIN data[i] |-> values[i][p]]]

\* data[...] = values on a one-dimensional array: every cell is overwritten
AssignAll1Finite(data, values) ==
  [p \in DOMAIN data |-> IF IsNaN(values[p]) THEN data[p] ELSE values[p]]
AssignAll1(data, values) == [p \in DOMAIN data |-> values[p]]

\* hpx.get_sky_dirs(): the pixel centers in pixel-index order
GetSkyDirs(npix) == [p \in 1..npix |-> p]

\* lines 155-162
DiffMaps(npix, nbin, o) ==
  /\ map_diff_flux' = Some(AssignAll2(Zeros2(nbin, npix), Transpose(o.flux, npix, nbin)))
  /\ map_diff_npred' = Some(AssignAll2(Zeros2(nbin, npix), Transpose(o.npred, npix, nbin)))

\* lines 164-171
IntMaps(npix, o) ==
  /\ map_int_flux' = Some(AssignAll1(Zeros1(npix), o.flux))
  /\ map_int_npred' = Some(AssignAll1(Zeros1(npix), o.npred))

MapsFor(npix, dirs, ts, mc) ==
  /\ map_skydir' = Some(dirs)
  /\ DiffMaps(npix, kwargs.nbin, DiffFluxThresholdMap(scalc[1], dirs, fn[1], ts, mc))
  /\ IntMaps(npix, IntFluxThresholdMap(scalc[1], dirs, fn[1], ts, mc))
  /\ calls' = calls \o <<Call("diff_flux_threshold", "map_skydir", fn[1], ts, mc),
                         Call("int_flux_threshold", "map_skydir", fn[1], ts, mc)>>

ComputeMaps ==
  /\ pc = "maps"
  /\ UNCHANGED nvars
  /\ MapRequested(kwargs.nside)
  /\ IF kwargs.nside = None
     THEN \* HPX(None, ...) raises
          /\ Raise("HPX")
          /\ UNCHANGED <<map_skydir, map_diff_flux, map_diff_npred,
                         map_int_flux, map_int_npred, calls>>
     ELSE /\ MapsFor(Npix(kwargs.nside[1]), GetSkyDirs(Npix(kwargs.nside[1])),
                     kwargs.ts_thresh, kwargs.min_counts)
          /\ pc' = "diff"
          /\ UNCHANGED err
  /\ UNCHANGED <<kwargs, disk, run, fn, ebins, ectr, ltc, gdiff, iso, scalc,
                 tab_diff, tab_int, tab_int_ebin, scan_i, written, prev>>

SkipMaps ==
  /\ pc = "maps"
  /\ UNCHANGED nvars
  /\ ~MapRequested(kwargs.nside)
  /\ pc' = "diff"
  /\ UNCHANGED <<kwargs, disk, run, err, locals, written, prev>>

\* ---------------------------------------------------- lines 173-220
IntColumns ==
  <<"index", "e_min", "e_ref", "e_max", "flux", "eflux", "dnde", "e2dnde", "npred">>

\* Table(cols): a table with these columns and no rows
EmptyTable(cols) == [columns |-> cols, rows |-> <<>>]

\* lines 175-188: the columns of tab_diff
DiffColumns(sc, o, n) ==
  [e_min |-> SubSeq(sc.ebins, 1, n - 1), e_ref |-> o.e_ref,
   e_max |-> SubSeq(sc.ebins, 2, n),
   flux |-> o.flux, eflux |-> o.eflux, dnde |-> o.dnde,
   e2dnde |-> o.e2dnde, npred |-> o.npred]

DiffTable ==
  /\ pc = "diff"
  /\ UNCHANGED nvars
  /\ tab_diff' = Some(DiffColumns(scalc[1],
                        DiffFluxThreshold(scalc[1], kwargs.c, fn[1],
                                          kwargs.ts_thresh, kwargs.min_counts),
                        Len(scalc[1].ebins)))
  /\ calls' = Append(calls, Call("diff_flux_threshold", "c", fn[1],
                                 kwargs.ts_thresh, kwargs.min_counts))
  /\ tab_int' = Some(EmptyTable(IntColumns))
  /\ tab_int_ebin' = Some(EmptyTable(IntColumns))
  /\ scan_i' = 1
  /\ pc' = "scan"
  /\ UNCHANGED <<kwargs, disk, run, err, fn, ebins, ectr, ltc, gdiff, iso, scalc,
                 map_skydir, map_diff_flux, map_diff_npred, map_int_flux,
                 map_int_npred, written, prev>>

\* ---------------------------------------------------- lines 220-238
\* index = np.linspace(1.0, 5.0, 4 * 4 + 1)
ScanGrid == Linspace(RInt(ScanFirst), RInt(ScanLast), ScanNum)

\* the min_counts argument of the integral scan's solver call
ScanCounts(min_counts) == ScanMinCounts

PresentColumns(columns, o) == SelectSeq(columns, LAMBDA cn : cn \in DOMAIN o)

RowOf(g, present, src) == <<g>> \o [k \in 1..Len(present) |-> src[present[k]]]

\* row = [g]; for colname in tab_int.columns: if colname in o: row += [src[colname]]
BuildRow(g, columns, o, src) == RowOf(g, PresentColumns(columns, o), src)

\* tab.add_row(row)
AddRowReplacing(tab, row) == [tab EXCEPT !.rows = <<row>>]
AddRow(tab, row) == [tab EXCEPT !.rows = Append(@, row)]

\* lines 225-238
AddRows(row, row_ebin) ==
  IF Len(row) # Len(tab_int[1].columns)
  THEN /\ Raise("add_row: mismatch between number of vals and columns")
       /\ UNCHANGED <<tab_int, tab_int_ebin, scan_i>>
  ELSE /\ tab_int' = Some(AddRow(tab_int[1], row))
       /\ tab_int_ebin' = Some(AddRow(tab_int_ebin[1], row_ebin))
       /\ scan_i' = scan_i + 1
       /\ UNCHANGED <<pc, err>>

\* lines 223-224 and then the rows
ScanBody(g, f, mc, o) ==
  /\ fn' = Some(f)
  /\ calls' = Append(calls, Call("int_flux_threshold", "c", f, kwargs.ts_thresh, mc))
  /\ AddRows(BuildRow(g, tab_int[1].columns, o, o),
             BuildRow(g, tab_int[1].columns, o, o.bins))

ScanWith(g, f, mc) ==
  ScanBody(g, f, mc, IntFluxThreshold(scalc[1], kwargs.c, f, kwargs.ts_thresh, mc))

ScanStep ==
  /\ pc = "scan"
  /\ UNCHANGED nvars
  /\ scan_i <= Len(ScanGrid)
  /\ ScanWith(ScanGrid[scan_i], PowerLaw(ScanGrid[scan_i], ScanScale),
              ScanCounts(kwargs.min_counts))
  /\ UNCHANGED <<kwargs, disk, run, ebins, ectr, ltc, gdiff, iso, scalc,
                 map_skydir, map_diff_flux, map_diff_npred, map_int_flux,
                 map_int_npred, tab_diff, written, prev>>

\* ---------------------------------------------------- lines 240-264
PrimaryHDU == [name |-> "PRIMARY", kind |-> "primary", data |-> <<>>]

\* fits.table_to_hdu(tab), map.create_image_hdu()
TableToHdu(tab) == [name |-> "", kind |-> "table", data |-> tab]
CreateImageHdu(map) == [name |-> "", kind |-> "image", data |-> map]

\* HDUList.append: an extension appended to an empty list is preceded by a
\* new primary HDU
HduAppend(hdulist, hdu) ==
  IF hdulist = <<>> THEN <<PrimaryHDU, hdu>> ELSE Append(hdulist, hdu)

\* hdulist[k].name = name, k counted from 0
SetName(hdulist, k, name) == [hdulist EXCEPT ![k + 1].name = name]

\* hdu = CreateImageHdu(map); hdu.name = name; hdulist.append(hdu)
AppendNamed(hdulist, map, name) ==
  HduAppend(hdulist, [CreateImageHdu(map) EXCEPT !.name = name])

\* if nside is not None: (line 249)
MapsWrittenNever(n) == FALSE
MapsWritten(n) == n # None

\* lines 240-247
NameTables(h) ==
  SetName(SetName(SetName(h, 1, "DIFF_FLUX"), 2, "INT_FLUX"), 3, "INT_FLUX_EBIN")

TableHdus ==
  NameTables(HduAppend(HduAppend(HduAppend(<<>>, TableToHdu(tab_diff[1])),
                                 TableToHdu(tab_int[1])),
                       TableToHdu(tab_int_ebin[1])))

\* lines 249-262
WithMaps(tabs) ==
  IF MapsWritten(kwargs.nside)
  THEN AppendNamed(AppendNamed(AppendNamed(AppendNamed(tabs,
         map_diff_flux[1], "MAP_DIFF_FLUX"),
         map_diff_npred[1], "MAP_DIFF_NPRED"),
         map_int_flux[1], "MAP_INT_FLUX"),
         map_int_npred[1], "MAP_INT_NPRED")
  ELSE tabs

\* hdulist.writeto(output, clobber=True)
WriteOutput ==
  /\ pc = "scan"
  /\ UNCHANGED nvars
  /\ scan_i > Len(ScanGrid)
  /\ written' = Some(WithMaps(TableHdus))
  /\ pc' = "done"
  /\ UNCHANGED <<kwargs, disk, run, err, locals, prev>>

\* ------------------------------------------------ a second invocation
\* run_flux_sensitivity is called again with the same arguments: its locals
\* are new, the files are what the first call left
Rerun ==
  /\ pc = "done"
  /\ UNCHANGED nvars
  /\ run = 1
  /\ run' = 2
  /\ prev' = Some([map_diff_flux |-> map_diff_flux, map_diff_npred |-> map_diff_npred,
                   map_int_flux |-> map_int_flux, map_int_npred |-> map_int_npred,
                   written |-> written])
  /\ pc' = "start" /\ err' = None
  /\ fn' = None /\ ebins' = None /\ ectr' = None /\ ltc' = None
  /\ gdiff' = None /\ iso' = None /\ scalc' = None /\ map_skydir' = None
  /\ map_diff_flux' = None /\ map_diff_npred' = None
  /\ map_int_flux' = None /\ map_int_npred' = None
  /\ tab_diff' = None /\ tab_int' = None /\ tab_int_ebin' = None
  /\ scan_i' = 0 /\ calls' = <<>>
  /\ UNCHANGED <<kwargs, disk, written>>

Next ==
  \/ Binning
  \/ LoadExposure
  \/ RescaleExposure
  \/ LoadBackground
  \/ Construct
  \/ ComputeMaps
  \/ SkipMaps
  \/ DiffTable
  \/ ScanStep
  \/ WriteOutput
  \/ Rerun

Spec == Init /\ [][Next]_vars

\* ==================================================================
\* plotting.PowerNorm (plotting.py lines 40-110)
\* ==================================================================
\* PowerNorm.__call__ is modelled as a sequential process, one action per
\* block, with npc naming the block that runs next.  The argument is a plain
\* number or a plain array of numbers (nothing masked), gamma is a positive
\* whole number, and the float arrays are sequences of exact rationals.

\* no flux-sensitivity run is in progress
FluxIdle ==
  /\ kwargs = None /\ disk = None /\ run = 0 /\ pc = "idle" /\ err = None
  /\ fn = None /\ ebins = None /\ ectr = None /\ ltc = None
  /\ gdiff = None /\ iso = None /\ scalc = None /\ map_skydir = None
  /\ map_diff_flux = None /\ map_diff_npred = None
  /\ map_int_flux = None /\ map_int_npred = None
  /\ tab_diff = None /\ tab_int = None /\ tab_int_ebin = None
  /\ scan_i = 0 /\ calls = <<>>
  /\ written = None /\ prev = None

NormNumbers == {-1} \cup 0..MaxValue
NormArrays == UNION {[1..n -> NormNumbers] : n \in 1..MaxLen}

\* PowerNorm(gamma, vmin=None, vmax=None, clip=True)
PowerNorms ==
  [gamma : 1..MaxGamma,
   vmin  : {None} \cup {Some(v) : v \in 0..(MaxValue - 1)},
   vmax  : {None} \cup {Some(v) : v \in 1..MaxValue},
   clip  : BOOLEAN]

\* norm(value, clip=None)
NormInit ==
  /\ FluxIdle
  /\ self \in PowerNorms
  /\ value \in {v \in [data : NormArrays, scalar : BOOLEAN] :
                  v.scalar => Len(v.data) = 1}
  /\ clip_arg \in {None, Some(TRUE), Some(FALSE)}
  /\ npc = "call" /\ nerr = None
  /\ clip = None /\ result = None /\ val = None /\ ret = None

NormRaise(name) == npc' = "error" /\ nerr' = Some(name)

RECURSIVE RPow(_, _)
\* base ** gamma for a whole gamma >= 0
RPow(base, gamma) == IF gamma = 0 THEN RInt(1) ELSE RMul(base, RPow(base, gamma - 1))

RECURSIVE MinOf(_, _)
MinOf(a, n) ==
  IF n = 1 THEN a[1]
  ELSE LET m == MinOf(a, n - 1) IN IF RLt(a[n], m) THEN a[n] ELSE m
RECURSIVE MaxOf(_, _)
MaxOf(a, n) ==
  IF n = 1 THEN a[1]
  ELSE LET m == MaxOf(a, n - 1) IN IF RLt(m, a[n]) THEN a[n] ELSE m
\* ma.min(A), ma.max(A)
MaMin(a) == MinOf(a, Len(a))
MaMax(a) == MaxOf(a, Len(a))

\* ---------------------------------------------------- plotting.py 50-53
\* clip defaults to self.clip; process_value copies the argument into a
\* float array, a scalar becoming an array of one element
ProcessValue ==
  /\ npc = "call"
  /\ UNCHANGED fvars
  /\ clip' = IF clip_arg = None THEN Some(self.clip) ELSE clip_arg
  /\ result' = Some([i \in 1..Len(value.data) |-> RInt(value.data[i])])
  /\ npc' = "autoscale"
  /\ UNCHANGED <<self, value, clip_arg, nerr, val, ret>>

\* ------------------------------------------- plotting.py 55 and 100-110
\* autoscale_None.  The module never imports warnings, so the call
\* warnings.warn(...) after the clamping of a negative minimum raises
\* NameError.
AutoscaleNone ==
  /\ npc = "autoscale"
  /\ UNCHANGED fvars
  /\ IF self.vmin = None /\ RLt(MaMin(result[1]), RInt(0))
     THEN /\ self' = [self EXCEPT !.vmin = Some(RInt(0))]
          /\ NormRaise("NameError")
     ELSE /\ self' = [self EXCEPT
                        !.vmin = IF @ = None THEN Some(MaMin(result[1])) ELSE Some(RInt(@[1])),
                        !.vmax = IF @ = None THEN Some(MaMax(result[1])) ELSE Some(RInt(@[1]))]
          /\ npc' = "check"
          /\ UNCHANGED nerr
  /\ UNCHANGED <<value, clip_arg, clip, result, val, ret>>

\* fill(0)
Fill0(a) == [i \in 1..Len(a) |-> RInt(0)]

\* ---------------------------------------------------- plotting.py 56-61
CheckRange ==
  /\ npc = "check"
  /\ UNCHANGED fvars
  /\ IF RLt(self.vmax[1], self.vmin[1])
     THEN /\ NormRaise("ValueError")
          /\ UNCHANGED result
     ELSE IF self.vmin[1] = self.vmax[1]
          THEN /\ result' = Some(Fill0(result[1]))
               /\ npc' = "return"
               /\ UNCHANGED nerr
          ELSE /\ npc' = "clip"
               /\ UNCHANGED <<result, nerr>>
  /\ UNCHANGED <<self, value, clip_arg, clip, val, ret>>

\* np.clip(a, lo, hi)
NpClip(a, lo, hi) ==
  [i \in 1..Len(a) |-> IF RLt(a[i], lo) THEN lo ELSE IF RLt(hi, a[i]) THEN hi ELSE a[i]]

\* ---------------------------------------------------- plotting.py 63-66
\* the clipped array is bound to val; result is left as it was
ClipToVal ==
  /\ npc = "clip"
  /\ UNCHANGED fvars
  /\ val' = IF clip[1] THEN Some(NpClip(result[1], self.vmin[1], self.vmax[1])) ELSE val
  /\ npc' = "scale"
  /\ UNCHANGED <<self, value, clip_arg, nerr, clip, result, ret>>

\* resdat -= vmin; np.power(resdat, gamma, resdat); resdat /= (vmax - vmin) ** gamma
PowerScale(a, gamma, vmin, vmax) ==
  [i \in 1..Len(a) |->
     RDiv(RPow(RAdd(a[i], RMul(RInt(-1), vmin)), gamma),
          RPow(RAdd(vmax, RMul(RInt(-1), vmin)), gamma))]

\* ---------------------------------------------------- plotting.py 67-71
\* resdat is the data of result
ScaleResult ==
  /\ npc = "scale"
  /\ UNCHANGED fvars
  /\ result' = Some(PowerScale(result[1], self.gamma, self.vmin[1], self.vmax[1]))
  /\ npc' = "zero"
  /\ UNCHANGED <<self, value, clip_arg, nerr, clip, val, ret>>

\* ------------------------------------------------------- plotting.py 72
\* result[(value < 0) & ~result.mask] = 0
ZeroNegative ==
  /\ npc = "zero"
  /\ UNCHANGED fvars
  /\ result' = Some([i \in 1..Len(result[1]) |->
                       IF value.data[i] < 0 THEN RInt(0) ELSE result[1][i]])
  /\ npc' = "return"
  /\ UNCHANGED <<self, value, clip_arg, nerr, clip, val, ret>>

\* ---------------------------------------------------- plotting.py 73-75
Return ==
  /\ npc = "return"
  /\ UNCHANGED fvars
  /\ ret' = Some(IF value.scalar THEN result[1][1] ELSE result[1])
  /\ npc' = "returned"
  /\ UNCHANGED <<self, value, clip_arg, nerr, clip, result, val>>

NormNext ==
  \/ ProcessValue
  \/ AutoscaleNone
  \/ CheckRange
  \/ ClipToVal
  \/ ScaleResult
  \/ ZeroNegative
  \/ Return

NormSpec == NormInit /\ [][NormNext]_vars

\* ==================================================================
\* Properties
\* ==================================================================
NoObsTimeError == Some("No observation time defined.")
AddRowError == Some("add_row: mismatch between number of vals and columns")

\* C1: a run with neither a livetime cube nor an observation time ends in
\* the exception 'No observation time defined.', and it never gets past the
\* exposure block: no background template is loaded, no SensitivityCalc is
\* constructed, the solver is never invoked and nothing is written.
C1_NoExposureSourceFailsFirst ==
  (kwargs.ltcube = None /\ kwargs.obs_time_yr = None) =>
    /\ pc \in {"start", "exposure", "error"}
    /\ pc = "error" => err = NoObsTimeError
    /\ ltc = None /\ gdiff = None /\ iso = None /\ scalc = None
    /\ calls = <<>>
    /\ written = None

C1_Witness ==
  /\ kwargs.ltcube = None /\ kwargs.obs_time_yr = None
  /\ pc = "error" /\ err = NoObsTimeError

\* C2: every solver invocation of a run carries the caller's ts_thresh and
\* the caller's min_counts.
C2_EveryCallUsesCallerCriterion ==
  \A k \in 1..Len(calls) :
    /\ calls[k].ts_thresh = kwargs.ts_thresh
    /\ calls[k].min_counts = kwargs.min_counts

\* the part of C2 the code keeps: the significance threshold of every call,
\* and the count threshold of every call but those of the integral scan
C2_CallerCriterionOutsideScan ==
  \A k \in 1..Len(calls) :
    /\ calls[k].ts_thresh = kwargs.ts_thresh
    /\ (calls[k].method = "diff_flux_threshold" \/ calls[k].skydir = "map_skydir")
         => calls[k].min_counts = kwargs.min_counts

Span == CubeOnDisk.tstop - CubeOnDisk.tstart

\* C3: the livetime held by the SensitivityCalc is the cube of the file times
\* one factor: obs_time_yr in seconds over (tstop - tstart) when both are
\* given, 1 when only the cube is given; a request of k times the span is the
\* cube times k.
C3_ExposureIsCubeTimesOneFactor ==
  (scalc # None /\ kwargs.ltcube # None) =>
    \A d \in Dirs :
      /\ kwargs.obs_time_yr = None =>
           scalc[1].ltc.counts[d] = CubeOnDisk.counts[d]
      /\ kwargs.obs_time_yr # None =>
           /\ scalc[1].ltc.counts[d] =
                RMul(CubeOnDisk.counts[d], Rat(kwargs.obs_time_yr[1] * SecPerYear, Span))
           /\ \A k \in 1..(2 * MaxYears) :
                kwargs.obs_time_yr[1] * SecPerYear = k * Span =>
                  scalc[1].ltc.counts[d] = RInt(k * CubeOnDisk.counts[d][1])

C3_Witness ==
  /\ pc = "done" /\ kwargs.ltcube # None /\ kwargs.obs_time_yr # None
  /\ kwargs.obs_time_yr[1] * SecPerYear = 3 * Span
  /\ scalc[1].ltc.counts[1] = RInt(3 * CubeOnDisk.counts[1][1])

\* C4: with nside None no pixel directions are built, no map is allocated, the
\* map block raises nothing, and the solver is invoked for the target
\* direction only: one differential solve, then one integral solve per
\* scanned index.
C4_NoMapNoPixelWork ==
  kwargs.nside = None =>
    /\ map_skydir = None
    /\ map_diff_flux = None /\ map_diff_npred = None
    /\ map_int_flux = None /\ map_int_npred = None
    /\ err # Some("HPX")
    /\ \A k \in 1..Len(calls) : calls[k].skydir = "c"
    /\ pc = "done" =>
         /\ Len(calls) = 1 + ScanNum
         /\ calls[1].method = "diff_flux_threshold"
         /\ \A k \in 2..Len(calls) :
              /\ calls[k].method = "int_flux_threshold"
              /\ calls[k].fn.index = ScanGrid[k - 1]

C4_Witness ==
  /\ kwargs.nside = None /\ pc = "done" /\ Len(calls) = 1 + ScanNum

\* C5: the scan from 1.0 to 5.0 appends one row per index to tab_int and one
\* to tab_int_ebin, in scan order: after k indices both tables have k rows,
\* row k starts with the k-th index 1 + (k - 1) / 4, and a finished run has
\* one row per index of the grid.
C5_OneRowPerScannedIndex ==
  /\ err # AddRowError
  /\ tab_int # None =>
       /\ Len(tab_int[1].rows) = scan_i - 1
       /\ Len(tab_int_ebin[1].rows) = scan_i - 1
       /\ \A k \in 1..Len(tab_int[1].rows) :
            /\ tab_int[1].rows[k][1] = Rat(k + 3, 4)
            /\ tab_int_ebin[1].rows[k][1] = Rat(k + 3, 4)
            /\ Len(tab_int[1].rows[k]) = Len(IntColumns)
            /\ Len(tab_int_ebin[1].rows[k]) = Len(IntColumns)
       /\ pc = "done" =>
            /\ Len(tab_int[1].rows) = ScanNum
            /\ tab_int[1].rows[1][1] = RInt(ScanFirst)
            /\ tab_int[1].rows[ScanNum][1] = RInt(ScanLast)

C5_Witness ==
  /\ pc = "done"
  /\ Len(tab_int[1].rows) = ScanNum /\ Len(tab_int_ebin[1].rows) = ScanNum

SectionNames(h) == [k \in 1..Len(h) |-> h[k].name]
TableSections == <<"DIFF_FLUX", "INT_FLUX", "INT_FLUX_EBIN">>
MapSections == <<"MAP_DIFF_FLUX", "MAP_DIFF_NPRED", "MAP_INT_FLUX", "MAP_INT_NPRED">>

\* C6: after the primary HDU the written file holds DIFF_FLUX, INT_FLUX and
\* INT_FLUX_EBIN in this order, followed by the four MAP_ sections exactly
\* when nside was given.
C6_OutputSections ==
  written # None =>
    /\ written[1][1].kind = "primary"
    /\ Tail(SectionNames(written[1])) =
         TableSections \o (IF kwargs.nside # None THEN MapSections ELSE <<>>)
    /\ \A k \in 2..Len(written[1]) :
         written[1][k].kind = IF k <= 4 THEN "table" ELSE "image"

C6_Witness ==
  /\ written # None /\ kwargs.nside # None
  /\ Tail(SectionNames(written[1])) = TableSections \o MapSections

\* emin >= emax, nbin < 1, or a threshold that is zero or negative
DomainInvalid(kw) ==
  \/ kw.emin >= kw.emax
  \/ kw.nbin < 1
  \/ kw.ts_thresh <= 0
  \/ kw.min_counts <= 0

\* C7: a run given a domain-invalid input never invokes the solver, never
\* writes and never completes.
C7_InvalidInputFailsBeforeSolving ==
  DomainInvalid(kwargs) =>
    /\ calls = <<>>
    /\ written = None
    /\ pc # "done"

\* the part of C7 that holds: degenerate energy binning is refused when the
\* SensitivityCalc is constructed
C7_InvalidBinningFailsBeforeSolving ==
  (kwargs.emin >= kwargs.emax \/ kwargs.nbin < 1) =>
    /\ calls = <<>>
    /\ written = None
    /\ pc # "done"

\* no exposure at direction d in bin i: the direction was never observed, or
\* the bin center lies below the response tables
ZeroExposure(d, i) ==
  \/ kwargs.ltcube # None /\ d \in UnobservedDirs
  \/ RLt(ectr[1][i], RInt(2))

FluxColumn == 5

\* C8: once the SensitivityCalc exists nothing aborts the run; a map cell, a
\* table cell or a scan row is non-finite exactly when its own bin (for an
\* integral: every bin of its direction) has no exposure, and a finished run
\* has written all tables and maps in full.
C8_DegenerateStaysLocal ==
  /\ scalc # None => pc # "error"
  /\ map_diff_flux # None =>
       \A i \in 1..kwargs.nbin : \A p \in 1..Npix(kwargs.nside[1]) :
         /\ IsNaN(map_diff_flux[1][i][p]) <=> ZeroExposure(p, i)
         /\ IsNaN(map_diff_npred[1][i][p]) <=> ZeroExposure(p, i)
  /\ map_int_flux # None =>
       \A p \in 1..Npix(kwargs.nside[1]) :
         /\ IsNaN(map_int_flux[1][p]) <=> \A i \in 1..kwargs.nbin : ZeroExposure(p, i)
         /\ IsNaN(map_int_npred[1][p]) <=> \A i \in 1..kwargs.nbin : ZeroExposure(p, i)
  /\ tab_diff # None =>
       \A i \in 1..kwargs.nbin :
         IsNaN(tab_diff[1].flux[i]) <=> ZeroExposure(kwargs.c, i)
  /\ tab_int # None =>
       \A k \in 1..Len(tab_int[1].rows) :
         /\ IsNaN(tab_int[1].rows[k][FluxColumn])
              <=> \A i \in 1..kwargs.nbin : ZeroExposure(kwargs.c, i)
         /\ \A i \in 1..kwargs.nbin :
              IsNaN(tab_int_ebin[1].rows[k][FluxColumn][i]) <=> ZeroExposure(kwargs.c, i)
  /\ pc = "done" =>
       /\ Len(tab_int[1].rows) = ScanNum
       /\ Len(tab_diff[1].flux) = kwargs.nbin
       /\ Len(written[1]) = IF kwargs.nside # None THEN 8 ELSE 4
       /\ written[1][2].data = tab_diff[1]
       /\ written[1][3].data = tab_int[1]
       /\ written[1][4].data = tab_int_ebin[1]
       /\ kwargs.nside # None =>
            /\ written[1][5].data = map_diff_flux[1]
            /\ written[1][7].data = map_int_flux[1]

C8_Witness ==
  /\ pc = "done" /\ kwargs.nside # None /\ kwargs.nbin = 2
  /\ IsNaN(map_int_flux[1][2]) /\ ~IsNaN(map_int_flux[1][1])
  /\ IsNaN(tab_diff[1].flux[1]) /\ ~IsNaN(tab_diff[1].flux[2])
  /\ IsNaN(map_diff_flux[1][1][1]) /\ ~IsNaN(map_diff_flux[1][2][1])
  /\ ~IsNaN(tab_int[1].rows[ScanNum][FluxColumn])
  /\ Len(written[1]) = 8

\* C9: the second of two invocations with the same arguments ends with the
\* same four maps and the same file as the first.
C9_RepeatedRunSameMaps ==
  (run = 2 /\ pc = "done") =>
    /\ map_diff_flux = prev[1].map_diff_flux
    /\ map_diff_npred = prev[1].map_diff_npred
    /\ map_int_flux = prev[1].map_int_flux
    /\ map_int_npred = prev[1].map_int_npred
    /\ written = prev[1].written

C9_Witness ==
  /\ run = 2 /\ pc = "done"
  /\ kwargs.nside # None /\ kwargs.ltcube # None /\ kwargs.obs_time_yr # None
  /\ map_int_flux # None /\ map_int_flux = prev[1].map_int_flux

TsProbe == {0, 1, DefaultTsThresh, DefaultTsThresh + 11, 4 * DefaultTsThresh}
McProbe == {0, 1, DefaultMinCounts, DefaultMinCounts + 2, 4 * DefaultMinCounts}

\* the detection criterion at a bin's returned threshold (norm, npred), and
\* the thresholds of the same bin for larger ts_thresh or min_counts
BindingAndMonotone(norm, npred, expo, bkg, ts, mc) ==
  RLt(RInt(0), expo) =>
    /\ ~IsNaN(norm)
    /\ npred = RMul(norm, expo)
    /\ RLe(RInt(mc), npred)
    /\ RLe(RMul(RInt(ts), bkg), RMul(npred, npred))
    /\ \/ npred = RInt(mc)
       \/ /\ bkg # RInt(0) /\ npred[2] = 1 /\ npred[1] >= 1
          /\ RLt(RMul(RInt(npred[1] - 1), RInt(npred[1] - 1)), RMul(RInt(ts), bkg))
    /\ \A ts2 \in TsProbe :
         ts2 >= ts => RLe(norm, ThresholdNorm(bkg, expo, ts2, mc))
    /\ \A mc2 \in McProbe :
         mc2 >= mc => RLe(norm, ThresholdNorm(bkg, expo, ts, mc2))

BindingAndMonotoneAt(i, expo) ==
  BindingAndMonotone(tab_diff[1].flux[i], tab_diff[1].npred[i], expo,
                     BackgroundCounts(scalc[1], kwargs.c, i, expo),
                     kwargs.ts_thresh, kwargs.min_counts)

\* C10: when the differential solve for the target returns, in every bin
\* that has exposure the returned normalization meets both the count and the
\* significance threshold, is the smallest that meets the one that binds,
\* and is not above the normalization for any larger ts_thresh or larger
\* min_counts.
C10_ThresholdIsLargerAndMonotone ==
  (pc = "scan" /\ scan_i = 1) =>
    \A i \in 1..kwargs.nbin :
      BindingAndMonotoneAt(i, Exposure(scalc[1], kwargs.c, i))

C10_Witness ==
  /\ pc = "scan" /\ scan_i = 1 /\ kwargs.min_counts > 0 /\ kwargs.ts_thresh > 0
  /\ \E i \in 1..kwargs.nbin :
       /\ RLt(RInt(kwargs.min_counts), tab_diff[1].npred[i])
       /\ RLt(tab_diff[1].flux[i],
              ThresholdNorm(BackgroundCounts(scalc[1], kwargs.c, i,
                                             Exposure(scalc[1], kwargs.c, i)),
                            Exposure(scalc[1], kwargs.c, i),
                            kwargs.ts_thresh + 11, kwargs.min_counts))
\* C11: whenever 0 < emin < emax and nbin >= 1, the binning built by the run
\* has exactly nbin + 1 edges, strictly increasing, the first at emin and the
\* last at emax, and exactly nbin centers, each the geometric mean of its
\* two adjacent edges (twice its logarithm is the sum of theirs) and
\* strictly between them.  Every carried value stands for the positive
\* energy 10**x.
C11_EdgesAndCenters ==
  (ebins # None /\ kwargs.emin < kwargs.emax /\ kwargs.nbin >= 1) =>
    LET e == ebins[1]
        c == ectr[1]
        n == kwargs.nbin
    IN  /\ Len(e) = n + 1
        /\ e[1] = RInt(kwargs.emin)
        /\ e[n + 1] = RInt(kwargs.emax)
        /\ Len(c) = n
        /\ \A i \in 1..n :
              /\ RLt(e[i], e[i + 1])
              /\ RAdd(c[i], c[i]) = RAdd(e[i], e[i + 1])
              /\ RLt(e[i], c[i])
              /\ RLt(c[i], e[i + 1])

C11_Witness ==
  /\ ebins # None
  /\ kwargs.emin < kwargs.emax
  /\ kwargs.nbin >= 2
  /\ Len(ebins[1]) = kwargs.nbin + 1
  /\ Len(ectr[1]) = kwargs.nbin

\* what a step of one run leaves alone once it exists: the energy binning
\* and the background models
BinningAndBackgroundsKept ==
  /\ ebins # None => (ebins' = ebins /\ ectr' = ectr)
  /\ gdiff # None => gdiff' = gdiff
  /\ iso # None => iso' = iso

\* C12 as stated: within a run, the energy binning, the exposure cube and the
\* background models are never modified once constructed (a rescaled cube
\* would be another instance, the loaded one staying as loaded), and the cube
\* file does not change.
C12_ConstructedOnceNeverModified ==
  [][/\ disk' = disk
     /\ run' = run =>
          /\ BinningAndBackgroundsKept
          /\ ltc # None => ltc' = ltc]_vars

\* C12, amended: within a run, the energy binning and the background models
\* are never modified once constructed; the cube object created from the file
\* is modified only by the rescaling step that directly follows its creation
\* (multiplied in place by one factor, or left alone without obs_time_yr),
\* and by nothing after it; the SensitivityCalc holds that binning and that
\* cube; the cube file never changes.
C12_FixedOnceTheExposureBlockIsDone ==
  [][/\ disk' = disk
     /\ run' = run =>
          /\ BinningAndBackgroundsKept
          /\ (ltc # None /\ pc # "rescale") => ltc' = ltc
          /\ (pc = "rescale" /\ kwargs.obs_time_yr = None) => ltc' = ltc
          /\ (pc = "rescale" /\ kwargs.obs_time_yr # None) =>
               ltc' = Some(Rescale(ltc[1], Rat(kwargs.obs_time_yr[1] * SecPerYear, Span)))
          /\ scalc' # None =>
               /\ scalc'[1].ebins = ebins'[1]
               /\ scalc'[1].ltc = ltc'[1]
               /\ scalc'[1].iso = iso'[1]]_vars

C12_Witness ==
  /\ pc = "done"
  /\ kwargs.ltcube # None /\ kwargs.obs_time_yr # None
  /\ ltc[1] # LTCubeCreate(disk)
  /\ scalc[1].ltc = ltc[1]
  /\ disk = CubeOnDisk

\* the numbers a call returned, as an array
Returned == IF value.scalar THEN <<ret[1]>> ELSE ret[1]

\* a call with clipping in force on a norm built with vmin < vmax
ClippingCall ==
  /\ npc = "returned"
  /\ clip[1]
  /\ RLt(self.vmin[1], self.vmax[1])

\* C13: a call with clipping enabled and vmin < vmax returns only values in
\* [0, 1]; in particular a negative data point is mapped to 0 and a value
\* above vmax to at most 1.
C13_ClippedResultInUnitInterval ==
  ClippingCall =>
    \A i \in 1..Len(Returned) :
      /\ RLe(RInt(0), Returned[i])
      /\ RLe(Returned[i], RInt(1))
      /\ value.data[i] < 0 => Returned[i] = RInt(0)

\* What does hold of such a call: a negative data point is mapped to 0, and
\* a data point within [vmin, vmax] to a value in [0, 1].
C13_InRangeAndNegativeInUnitInterval ==
  ClippingCall =>
    \A i \in 1..Len(Returned) :
      /\ value.data[i] < 0 => Returned[i] = RInt(0)
      /\ (RLe(self.vmin[1], RInt(value.data[i])) /\ RLe(RInt(value.data[i]), self.vmax[1])) =>
           (RLe(RInt(0), Returned[i]) /\ RLe(Returned[i], RInt(1)))

====
